---- MODULE Spec2Model ----
(***************************************************************************)
(* Model of the PDF chunking pipeline of the research assistant backend:   *)
(* PDFProcessor (backend/app/services/pdf_processing.py) with its text     *)
(* extraction, chunk_text and _split_text_with_overlap, and                *)
(* process_uploaded_document (backend/app/services/document_processor.py). *)
(*                                                                         *)
(* A text is a sequence of one-character strings.  Python indices are      *)
(* 0-based, TLA+ sequences 1-based: text[i] of the source is text[i + 1]   *)
(* here, and all cursors (start, end, sentence_end) keep the 0-based       *)
(* values of the source.                                                   *)
(***************************************************************************)
EXTENDS Integers, Sequences, FiniteSets, TLC

VARIABLES
    chunk_size,     \* self.chunk_size
    chunk_overlap,  \* self.chunk_overlap
    pages_text,     \* argument of chunk_text: sequence of <<text, page_num>>
    pc,             \* position in chunk_text: "page_loop", "split_loop", "done"
    page_idx,       \* position of the for loop over pages_text (1-based)
    chunks,         \* chunk_text: chunks
    chunk_index,    \* chunk_text: chunk_index
    start,          \* _split_text_with_overlap: start
    page_chunks,    \* _split_text_with_overlap: chunks
    windows,        \* history of the running split loop, one record per iteration
    pdf,            \* the file behind file_path: [exists, readable, pages]
    db,             \* the committed rows: [status, chunks] of the document
    proc,           \* the invocations of process_uploaded_document
    inv2,           \* a second invocation of chunk_text, with its own locals
    embed           \* an invocation of EmbeddingService.embed_document_chunks

vars == <<chunk_size, chunk_overlap, pages_text, pc, page_idx, chunks,
          chunk_index, start, page_chunks, windows, pdf, db, proc, inv2,
          embed>>

\* what lies outside one invocation of chunk_text
outer_vars == <<pdf, db, proc, inv2, embed>>

\* the configuration and the locals of one invocation of chunk_text
chunker_vars == <<chunk_size, chunk_overlap, pages_text, pc, page_idx, chunks,
                  chunk_index, start, page_chunks, windows>>

----------------------------------------------------------------------------
(* Bounds of the model                                                     *)

MaxLen == 7         \* longest exhaustively enumerated page text
MaxChunk == 4       \* largest exhaustively enumerated chunk_size
MaxPages == 2       \* most pages in an enumerated multi-page document
MaxPageLen == 2     \* longest page text in a multi-page document
MaxPageNum == 2     \* largest page number
MaxIters == 12      \* most iterations of the split loop that are followed

(* Program constants                                                       *)

Lookback == 200             \* the literal of "end - 200"
DefaultChunkSize == 1000    \* chunk_size default
DefaultChunkOverlap == 200  \* chunk_overlap default

----------------------------------------------------------------------------
(* Helpers on integers and strings                                         *)

Min(a, b) == IF a < b THEN a ELSE b
Max(a, b) == IF a > b THEN a ELSE b

Alphabet == {"a", ".", " "}

\* str.isspace for one character
IsSpace(c) == c = " "

\* text[lo:hi] for 0 <= lo, 0 <= hi (the slice is clamped to the text)
Slice(text, lo, hi) == SubSeq(text, lo + 1, Min(hi, Len(text)))

\* str.lstrip, str.rstrip, str.strip
RECURSIVE LStrip(_)
LStrip(s) == IF s # <<>> /\ IsSpace(Head(s)) THEN LStrip(Tail(s)) ELSE s

RECURSIVE RStrip(_)
RStrip(s) ==
    IF s # <<>> /\ IsSpace(s[Len(s)]) THEN RStrip(SubSeq(s, 1, Len(s) - 1)) ELSE s

Strip(s) == RStrip(LStrip(s))

\* text.rfind(ch, lo, hi): the highest index i, lo <= i < hi, with
\* text[i] = ch, or -1 when there is none
RFind(text, ch, lo, hi) ==
    LET found == {i \in lo..(Min(hi, Len(text)) - 1) : text[i + 1] = ch} IN
    IF found = {} THEN -1
    ELSE CHOOSE i \in found : \A j \in found : j <= i

----------------------------------------------------------------------------
(* One iteration of the loop of _split_text_with_overlap                   *)

\* WindowEnd with the period followed by one more character
WindowEndPastPeriod(text, s, cs) ==
    LET end == s + cs IN
    IF end < Len(text)
    THEN LET search_start == Max(end - Lookback, s)
             sentence_end == RFind(text, ".", search_start, end)
         IN  IF sentence_end > s
             THEN [end |-> sentence_end + 2, snapped |-> TRUE]
             ELSE [end |-> end, snapped |-> FALSE]
    ELSE [end |-> end, snapped |-> FALSE]

\* WindowEnd with a lookback of chunk_overlap characters
WindowEndOverlapLookback(text, s, cs) ==
    LET end == s + cs IN
    IF end < Len(text)
    THEN LET search_start == Max(end - chunk_overlap, s)
             sentence_end == RFind(text, ".", search_start, end)
         IN  IF sentence_end > s
             THEN [end |-> sentence_end + 1, snapped |-> TRUE]
             ELSE [end |-> end, snapped |-> FALSE]
    ELSE [end |-> end, snapped |-> FALSE]

\* the end of the window that starts at s: [end, snapped]
WindowEnd(text, s, cs) ==
    LET end == s + cs IN
    IF end < Len(text)
    THEN LET search_start == Max(end - Lookback, s)
             sentence_end == RFind(text, ".", search_start, end)
         IN  IF sentence_end > s
             THEN [end |-> sentence_end + 1, snapped |-> TRUE]
             ELSE [end |-> end, snapped |-> FALSE]
    ELSE [end |-> end, snapped |-> FALSE]

\* WindowChunk without the strip
WindowChunkUnstripped(text, s, e) == Slice(text, s, e)

\* the chunk of the window: text[start:end].strip()
WindowChunk(text, s, e) == Strip(Slice(text, s, e))

\* NextStart advancing by the overlap instead of keeping it
NextStartByOverlap(e, ov) ==
    LET s == e - chunk_size + ov IN
    IF s <= 0 THEN e ELSE s

\* NextStart with the overlap added instead of subtracted
NextStartGap(e, ov) ==
    LET s == e + ov IN
    IF s <= 0 THEN e ELSE s

\* NextStart without the overlap
NextStartNoOverlap(e, ov) == e

\* "Move start position with overlap" and "Ensure we don't go backwards"
NextStart(e, ov) ==
    LET s == e - ov IN
    IF s <= 0 THEN e ELSE s

----------------------------------------------------------------------------
(* Inputs                                                                  *)

\* texts as the extractor returns them: non-empty and stripped
Trimmed(t) == Len(t) >= 1 /\ ~IsSpace(t[1]) /\ ~IsSpace(t[Len(t)])

TextsUpTo(n) ==
    UNION {{t \in [1..k -> Alphabet] : Trimmed(t)} : k \in 1..n}

\* a long page: letters, with periods and spaces at the given 0-based places
LongText(len, dots, spaces) ==
    [i \in 1..len |->
        IF (i - 1) \in dots THEN "."
        ELSE IF (i - 1) \in spaces THEN " "
        ELSE "a"]

LongTexts ==
    {LongText(len, dots, spaces) :
        len \in {500, 1200, 2500},
        dots \in SUBSET {799, 800, 850},
        spaces \in SUBSET {999}}
    \cup {LongText(6000, {800 + 601 * k : k \in 0..8}, {})}

SmallConfigs ==
    {c \in (1..MaxChunk) \X (0..MaxChunk) : c[2] < c[1]}

LongConfigs ==
    {<<DefaultChunkSize, DefaultChunkOverlap>>, <<DefaultChunkSize, 100>>}

\* strictly ascending page numbers for n pages
PageNumbers(n) ==
    {p \in [1..n -> 1..MaxPageNum] : \A i \in 1..n, j \in 1..n : i < j => p[i] < p[j]}

Paged(texts, nums) == [i \in 1..Len(texts) |-> <<texts[i], nums[i]>>]

DocsOf(texts, n) ==
    {Paged(ts, ns) : ts \in [1..n -> texts], ns \in PageNumbers(n)}

\* every one-page document with a text of up to MaxLen characters, and
\* every document of up to MaxPages shorter pages with its page numbers
SmallDocs ==
    {Paged(<<t>>, <<1>>) : t \in TextsUpTo(MaxLen)}
    \cup UNION {DocsOf(TextsUpTo(MaxPageLen), n) : n \in 0..MaxPages}

\* every long page as a document, and the two-page documents of a short
\* page and a page that is split
LongDocs ==
    DocsOf(LongTexts, 1)
    \cup DocsOf({LongText(500, {}, {}), LongText(1200, {850}, {999})}, 2)

Inputs ==
    (SmallConfigs \X SmallDocs) \cup (LongConfigs \X LongDocs)

----------------------------------------------------------------------------
(* chunk_text                                                              *)

DocumentChunk(text, index, page_num, count) ==
    [text |-> text, chunk_index |-> index, page_number |-> page_num,
     char_count |-> count]

InitWith(in) ==
    /\ chunk_size = in[1][1]
    /\ chunk_overlap = in[1][2]
    /\ pages_text = in[2]
    /\ pc = "page_loop"
    /\ page_idx = 1
    /\ chunks = <<>>
    /\ chunk_index = 0
    /\ start = 0
    /\ page_chunks = <<>>
    /\ windows = <<>>

\* chunk_text called on its own: no file, no rows, no call of
\* process_uploaded_document, no second invocation, no embedding
NoFile == [exists |-> FALSE, readable |-> FALSE, pages |-> <<>>]
NoRows == [status |-> "none", chunks |-> <<>>]
NoCalls == <<>>
NoSecond == [pc |-> "none"]
NoEmbedding == [pc |-> "none"]

Alone ==
    /\ pdf = NoFile
    /\ db = NoRows
    /\ proc = NoCalls
    /\ inv2 = NoSecond
    /\ embed = NoEmbedding

Init == \E in \in Inputs : InitWith(in) /\ Alone

page_text == pages_text[page_idx][1]

\* page_num read from the page at the mirrored position
page_num_mirrored == pages_text[Len(pages_text) + 1 - page_idx][2]

page_num == pages_text[page_idx][2]

\* PageWhole without the increment of the counter
PageWholeNoCount ==
    /\ pc = "page_loop"
    /\ page_idx <= Len(pages_text)
    /\ Len(page_text) <= chunk_size
    /\ chunks' = Append(chunks,
            DocumentChunk(page_text, chunk_index, page_num, Len(page_text)))
    /\ page_idx' = page_idx + 1
    /\ UNCHANGED <<chunk_size, chunk_overlap, pages_text, pc, start,
                   page_chunks, windows, chunk_index>>
    /\ UNCHANGED outer_vars

\* lines 96-104: a page no longer than chunk_size is one chunk
PageWhole ==
    /\ pc = "page_loop"
    /\ page_idx <= Len(pages_text)
    /\ Len(page_text) <= chunk_size
    /\ chunks' = Append(chunks,
            DocumentChunk(page_text, chunk_index, page_num, Len(page_text)))
    /\ chunk_index' = chunk_index + 1
    /\ page_idx' = page_idx + 1
    /\ UNCHANGED <<chunk_size, chunk_overlap, pages_text, pc, start,
                   page_chunks, windows>>
    /\ UNCHANGED outer_vars

\* SplitBegin with the list of the previous call kept
SplitBeginKeepChunks ==
    /\ pc = "page_loop"
    /\ page_idx <= Len(pages_text)
    /\ Len(page_text) > chunk_size
    /\ pc' = "split_loop"
    /\ start' = 0
    /\ windows' = <<>>
    /\ UNCHANGED <<chunk_size, chunk_overlap, pages_text, page_idx, chunks,
                   chunk_index, page_chunks>>
    /\ UNCHANGED outer_vars

\* line 107 with lines 131-132: enter _split_text_with_overlap
SplitBegin ==
    /\ pc = "page_loop"
    /\ page_idx <= Len(pages_text)
    /\ Len(page_text) > chunk_size
    /\ pc' = "split_loop"
    /\ start' = 0
    /\ page_chunks' = <<>>
    /\ windows' = <<>>
    /\ UNCHANGED <<chunk_size, chunk_overlap, pages_text, page_idx, chunks,
                   chunk_index>>
    /\ UNCHANGED outer_vars

\* lines 134-156: one iteration of the while loop
SplitStep ==
    /\ pc = "split_loop"
    /\ start < Len(page_text)
    /\ Len(windows) < MaxIters
    /\ LET w == WindowEnd(page_text, start, chunk_size)
           chunk == WindowChunk(page_text, start, w.end)
       IN  /\ page_chunks' = IF chunk # <<>> THEN Append(page_chunks, chunk)
                                             ELSE page_chunks
           /\ start' = NextStart(w.end, chunk_overlap)
           /\ windows' = Append(windows,
                   [start |-> start, end |-> w.end, snapped |-> w.snapped,
                    chunk |-> chunk])
    /\ UNCHANGED <<chunk_size, chunk_overlap, pages_text, pc, page_idx,
                   chunks, chunk_index>>
    /\ UNCHANGED outer_vars

\* Numbered with the numbering restarted on every page
NumberedPerPage(pcs, first, num) ==
    [k \in 1..Len(pcs) |-> DocumentChunk(pcs[k], k - 1, num, Len(pcs[k]))]

\* Numbered with the size of the window as char_count
NumberedWindowCount(pcs, first, num) ==
    [k \in 1..Len(pcs) |-> DocumentChunk(pcs[k], first + k - 1, num, chunk_size)]

\* the chunks of lines 109-116 for the returned page_chunks
Numbered(pcs, first, num) ==
    [k \in 1..Len(pcs) |-> DocumentChunk(pcs[k], first + k - 1, num, Len(pcs[k]))]

\* line 158 and lines 109-116: the loop is left, the page's chunks are numbered
SplitReturn ==
    /\ pc = "split_loop"
    /\ start >= Len(page_text)
    /\ chunks' = chunks \o Numbered(page_chunks, chunk_index, page_num)
    /\ chunk_index' = chunk_index + Len(page_chunks)
    /\ page_idx' = page_idx + 1
    /\ pc' = "page_loop"
    /\ UNCHANGED <<chunk_size, chunk_overlap, pages_text, start,
                   page_chunks, windows>>
    /\ UNCHANGED outer_vars

\* line 118
Return ==
    /\ pc = "page_loop"
    /\ page_idx > Len(pages_text)
    /\ pc' = "done"
    /\ UNCHANGED <<chunk_size, chunk_overlap, pages_text, page_idx, chunks,
                   chunk_index, start, page_chunks, windows>>
    /\ UNCHANGED outer_vars

Next ==
    \/ PageWhole
    \/ SplitBegin
    \/ SplitStep
    \/ SplitReturn
    \/ Return

Spec == Init /\ [][Next]_vars

\* the configuration process_uploaded_document runs with
InitDefault ==
    \E doc \in LongDocs :
        InitWith(<<<<DefaultChunkSize, DefaultChunkOverlap>>, doc>>) /\ Alone

SpecDefault == InitDefault /\ [][Next]_vars

----------------------------------------------------------------------------
(* extract_text_from_pdf and process_pdf                                   *)

\* characters of the text PyPDF2 returns for a page: a word character, a
\* period, a space, a line break, and a character outside the kept classes
RawAlphabet == {"a", ".", " ", "\n", "#"}

\* the class \s
Whitespace == {" ", "\n"}

\* the class [^\w\s\.,!?;:()\-\'"]
Artifacts == {"#"}

\* re.sub(class+, ' ', s) on s[lo..hi]: every maximal run of characters of
\* the class becomes one space (a character of the class that follows
\* another one is dropped, the first of a run becomes the space)
RECURSIVE SubRuns(_, _, _, _)
SubRuns(s, class, lo, hi) ==
    IF lo > hi THEN <<>>
    ELSE IF lo = hi
    THEN IF s[lo] \in class
         THEN IF lo > 1 /\ s[lo - 1] \in class THEN <<>> ELSE <<" ">>
         ELSE <<s[lo]>>
    ELSE LET mid == (lo + hi) \div 2 IN
         SubRuns(s, class, lo, mid) \o SubRuns(s, class, mid + 1, hi)

\* _clean_text: whitespace runs, then artifact runs, then strip; the four
\* replace calls of lines 76-77 replace a straight quote by itself or look
\* for a string that holds quotes and parentheses, and change no text
\* over RawAlphabet
CleanText(raw) ==
    LET spaced == SubRuns(raw, Whitespace, 1, Len(raw))
        kept == SubRuns(spaced, Artifacts, 1, Len(spaced))
    IN  Strip(kept)

\* the loop of lines 45-52 from page n on
RECURSIVE ExtractPages(_, _)
ExtractPages(raws, n) ==
    IF n > Len(raws) THEN <<>>
    ELSE LET text == CleanText(raws[n]) IN
         (IF Strip(text) # <<>> THEN <<<<text, n>>>> ELSE <<>>)
            \o ExtractPages(raws, n + 1)

\* ExtractTextFromPdf with the kept pages numbered by their place in the
\* result
ExtractTextRenumbered(file) ==
    IF ~file.exists \/ ~file.readable
    THEN [raised |-> TRUE, pages |-> <<>>]
    ELSE LET ps == ExtractPages(file.pages, 1) IN
         [raised |-> FALSE, pages |-> [k \in 1..Len(ps) |-> <<ps[k][1], k>>]]

\* extract_text_from_pdf: the pages, or the ValueError of line 55 when the
\* file cannot be opened or read
ExtractTextFromPdf(file) ==
    IF ~file.exists \/ ~file.readable
    THEN [raised |-> TRUE, pages |-> <<>>]
    ELSE [raised |-> FALSE, pages |-> ExtractPages(file.pages, 1)]

(* Files                                                                   *)

MaxRawLen == 3      \* longest raw text of an enumerated one-page file
MaxRawPageLen == 1  \* longest raw page text in an enumerated multi-page file

PdfFile(raws) == [exists |-> TRUE, readable |-> TRUE, pages |-> raws]
MissingFile == [exists |-> FALSE, readable |-> FALSE, pages |-> <<>>]
DamagedFile == [exists |-> TRUE, readable |-> FALSE, pages |-> <<>>]

RawTextsUpTo(n) == UNION {[1..k -> RawAlphabet] : k \in 0..n}

\* a long raw page: letters, with periods, line breaks and artifacts at the
\* given 0-based places
RawText(len, dots, breaks, marks) ==
    [i \in 1..len |->
        IF (i - 1) \in dots THEN "."
        ELSE IF (i - 1) \in breaks THEN "\n"
        ELSE IF (i - 1) \in marks THEN "#"
        ELSE "a"]

LongRawPage == RawText(1300, {850}, {0, 400, 401, 1299}, {600, 601})
BlankRawPage == RawText(40, {}, {0, 1, 2} \cup (5..39), {3, 4})

\* the files of up to n pages of up to MaxRawPageLen raw characters
PdfsOfPages(n) ==
    UNION {{PdfFile(raws) : raws \in [1..k -> RawTextsUpTo(MaxRawPageLen)]} :
            k \in 0..n}

\* files with blank and long pages, and the files that cannot be read
SpecialPdfs ==
    {PdfFile(<<BlankRawPage, LongRawPage>>),
     PdfFile(<<LongRawPage, BlankRawPage, <<"a", "\n", "#", ".">> >>),
     PdfFile(<<BlankRawPage, BlankRawPage>>),
     MissingFile, DamagedFile}

\* every one-page file of up to MaxRawLen raw characters
OnePagePdfs == {PdfFile(<<t>>) : t \in RawTextsUpTo(MaxRawLen)}

PdfConfigs ==
    {<<1, 0>>, <<2, 1>>, <<DefaultChunkSize, DefaultChunkOverlap>>}

\* process_pdf is entered on a file
InitPdf ==
    \E c \in PdfConfigs,
       file \in OnePagePdfs \cup PdfsOfPages(MaxPages) \cup SpecialPdfs :
        /\ chunk_size = c[1]
        /\ chunk_overlap = c[2]
        /\ pdf = file
        /\ pages_text = <<>>
        /\ pc = "extract"
        /\ page_idx = 1
        /\ chunks = <<>>
        /\ chunk_index = 0
        /\ start = 0
        /\ page_chunks = <<>>
        /\ windows = <<>>
        /\ db = NoRows
        /\ proc = NoCalls
        /\ inv2 = NoSecond
        /\ embed = NoEmbedding

\* lines 171-177: extract the pages, raise when there is none, or go on to
\* chunk_text
ProcessPdfExtract ==
    /\ pc = "extract"
    /\ LET r == ExtractTextFromPdf(pdf) IN
        IF r.raised
        THEN pc' = "raise_reading" /\ UNCHANGED pages_text
        ELSE /\ pages_text' = r.pages
             /\ pc' = IF r.pages = <<>> THEN "raise_no_text" ELSE "page_loop"
    /\ UNCHANGED <<chunk_size, chunk_overlap, page_idx, chunks, chunk_index,
                   start, page_chunks, windows>>
    /\ UNCHANGED outer_vars

NextPdf ==
    \/ ProcessPdfExtract
    \/ PageWhole
    \/ SplitBegin
    \/ SplitStep
    \/ SplitReturn
    \/ Return

SpecPdf == InitPdf /\ [][NextPdf]_vars

----------------------------------------------------------------------------
(* chunk_text as a function of its locals                                  *)

\* the locals of an invocation of chunk_text that has just been entered
ChunkerEntered(pages, cs, ov) ==
    [chunk_size |-> cs, chunk_overlap |-> ov, pages_text |-> pages,
     pc |-> "page_loop", page_idx |-> 1, chunks |-> <<>>, chunk_index |-> 0,
     start |-> 0, page_chunks |-> <<>>]

\* one step of the invocation with the locals st: the step PageWhole,
\* SplitBegin, SplitStep, SplitReturn or Return that st allows
ChunkerStep(st) ==
    LET text == st.pages_text[st.page_idx][1]
        num == st.pages_text[st.page_idx][2]
    IN
    IF st.pc = "page_loop"
    THEN IF st.page_idx > Len(st.pages_text)
         THEN [st EXCEPT !.pc = "done"]
         ELSE IF Len(text) <= st.chunk_size
         THEN [st EXCEPT
                 !.chunks = Append(@, DocumentChunk(text, st.chunk_index, num,
                                                    Len(text))),
                 !.chunk_index = @ + 1,
                 !.page_idx = @ + 1]
         ELSE [st EXCEPT !.pc = "split_loop", !.start = 0, !.page_chunks = <<>>]
    ELSE IF st.pc = "split_loop"
    THEN IF st.start < Len(text)
         THEN LET w == WindowEnd(text, st.start, st.chunk_size)
                  chunk == WindowChunk(text, st.start, w.end)
              IN  [st EXCEPT
                      !.page_chunks = IF chunk # <<>> THEN Append(@, chunk) ELSE @,
                      !.start = NextStart(w.end, st.chunk_overlap)]
         ELSE [st EXCEPT
                 !.chunks = @ \o Numbered(st.page_chunks, st.chunk_index, num),
                 !.chunk_index = @ + Len(st.page_chunks),
                 !.page_idx = @ + 1,
                 !.pc = "page_loop"]
    ELSE st

\* the invocation run to its return
RECURSIVE RunChunker(_)
RunChunker(st) == IF st.pc = "done" THEN st ELSE RunChunker(ChunkerStep(st))

\* chunk_text(pages_text) of a PDFProcessor(cs, ov)
ChunkText(pages, cs, ov) == RunChunker(ChunkerEntered(pages, cs, ov)).chunks

\* ProcessPdf returning an empty list where process_pdf raises
ProcessPdfEmptyList(file, cs, ov) ==
    LET r == ExtractTextFromPdf(file) IN
    IF r.raised
    THEN [error |-> "reading", chunks |-> <<>>]
    ELSE [error |-> "none", chunks |-> ChunkText(r.pages, cs, ov)]

\* process_pdf: the chunks, or the error it raises
ProcessPdf(file, cs, ov) ==
    LET r == ExtractTextFromPdf(file) IN
    IF r.raised
    THEN [error |-> "reading", chunks |-> <<>>]
    ELSE IF r.pages = <<>>
    THEN [error |-> "no_text", chunks |-> <<>>]
    ELSE [error |-> "none", chunks |-> ChunkText(r.pages, cs, ov)]

\* process_pdf_file(file_path) as process_uploaded_document calls it
ProcessPdfFile(file) == ProcessPdf(file, DefaultChunkSize, DefaultChunkOverlap)

\* the stepwise and the functional chunk_text and process_pdf agree
ChunkTextAgrees ==
    pc = "done" => chunks = ChunkText(pages_text, chunk_size, chunk_overlap)

ProcessPdfAgrees ==
    /\ pc = "done" =>
            ProcessPdf(pdf, chunk_size, chunk_overlap) =
                [error |-> "none", chunks |-> chunks]
    /\ pc = "raise_no_text" =>
            ProcessPdf(pdf, chunk_size, chunk_overlap).error = "no_text"
    /\ pc = "raise_reading" =>
            ProcessPdf(pdf, chunk_size, chunk_overlap).error = "reading"

----------------------------------------------------------------------------
(* process_uploaded_document                                               *)
(*                                                                         *)
(* db holds what is committed for the one document: its status and its     *)
(* chunk rows in insertion order.  An invocation has its own session; it   *)
(* reads the status once (line 24) and writes at its three commits.  The   *)
(* commits of the status alone (lines 41 and 81) succeed; the commit of    *)
(* line 72, which inserts the rows, succeeds or raises, and leaves the     *)
(* committed state as it was when it raises (one transaction, autoflush    *)
(* and autocommit off).  The coroutine has no await, so on one event loop  *)
(* an invocation runs from call to return before the next one starts.      *)

MaxCalls == 2       \* invocations of process_uploaded_document

Procs == 1..MaxCalls

\* an invocation that has not started: position, status read at line 24,
\* chunks returned by process_pdf_file, exception raised in the try block,
\* statuses committed so far, return value
NewCall ==
    [pc |-> "call", seen |-> "none", chunks |-> <<>>, error |-> "none",
     writes |-> <<>>, result |-> "none"]

\* the row of lines 57-64 for a chunk
Row(chunk) ==
    [chunk_text |-> chunk.text, chunk_index |-> chunk.chunk_index,
     page_number |-> chunk.page_number, embedding |-> "None"]

Rows(cs) == [k \in 1..Len(cs) |-> Row(cs[k])]

\* the files behind upload_path: none, an unreadable one, files without
\* text, every one-page file of up to MaxRawLen raw characters, and files
\* with a page that is split
DocFiles == SpecialPdfs \cup {PdfFile(<<>>)} \cup OnePagePdfs

\* the document has been uploaded (routers/documents.py, status "uploaded")
\* and nothing has been processed
InitDoc ==
    /\ pdf \in DocFiles
    /\ db = [status |-> "uploaded", chunks |-> <<>>]
    /\ proc = [p \in Procs |-> NewCall]
    /\ inv2 = NoSecond
    /\ embed = NoEmbedding
    /\ chunk_size = DefaultChunkSize
    /\ chunk_overlap = DefaultChunkOverlap
    /\ pages_text = <<>>
    /\ pc = "idle"
    /\ page_idx = 1
    /\ chunks = <<>>
    /\ chunk_index = 0
    /\ start = 0
    /\ page_chunks = <<>>
    /\ windows = <<>>

\* Query with a failed document taken up again
QueryRetryFailed(p) ==
    /\ proc[p].pc = "call"
    /\ proc' = [proc EXCEPT
            ![p].seen = db.status,
            ![p].pc = IF db.status \in {"uploaded", "failed"} THEN "checked"
                      ELSE "returned",
            ![p].result = IF db.status \in {"uploaded", "failed"} THEN "none"
                          ELSE IF db.status = "completed" THEN "True"
                          ELSE "False"]
    /\ UNCHANGED <<pdf, db, inv2, embed>>
    /\ UNCHANGED chunker_vars

\* lines 24-35: read the document; return at once unless it is "uploaded"
Query(p) ==
    /\ proc[p].pc = "call"
    /\ proc' = [proc EXCEPT
            ![p].seen = db.status,
            ![p].pc = IF db.status = "uploaded" THEN "checked" ELSE "returned",
            ![p].result = IF db.status = "uploaded" THEN "none"
                          ELSE IF db.status = "completed" THEN "True"
                          ELSE "False"]
    /\ UNCHANGED <<pdf, db, inv2, embed>>
    /\ UNCHANGED chunker_vars

\* lines 40-41: status "processing", commit
MarkProcessing(p) ==
    /\ proc[p].pc = "checked"
    /\ db' = [db EXCEPT !.status = "processing"]
    /\ proc' = [proc EXCEPT
            ![p].pc = "processing",
            ![p].writes = Append(@, "processing")]
    /\ UNCHANGED <<pdf, inv2, embed>>
    /\ UNCHANGED chunker_vars

\* the exception lines 44-52 raise, or "none"
ProcessingError(file) ==
    IF ~file.exists THEN "file_not_found"
    ELSE LET r == ProcessPdfFile(file) IN
         IF r.error # "none" THEN r.error
         ELSE IF r.chunks = <<>> THEN "no_chunks"
         ELSE "none"

\* lines 44-52: the file is looked for and processed
ProcessFile(p) ==
    /\ proc[p].pc = "processing"
    /\ LET error == ProcessingError(pdf) IN
        proc' = [proc EXCEPT
            ![p].error = error,
            ![p].chunks = IF error = "none" THEN ProcessPdfFile(pdf).chunks
                          ELSE <<>>,
            ![p].pc = IF error = "none" THEN "extracted" ELSE "failing"]
    /\ UNCHANGED <<pdf, db, inv2, embed>>
    /\ UNCHANGED chunker_vars

\* lines 55-75: the rows are added, the status is "completed", one commit
StoreChunks(p) ==
    /\ proc[p].pc = "extracted"
    /\ db' = [status |-> "completed",
              chunks |-> db.chunks \o Rows(proc[p].chunks)]
    /\ proc' = [proc EXCEPT
            ![p].pc = "returned",
            ![p].writes = Append(@, "completed"),
            ![p].result = "True"]
    /\ UNCHANGED <<pdf, inv2, embed>>
    /\ UNCHANGED chunker_vars

\* StoreFails with the rows written before the failing one left behind
StoreFailsPartial(p) ==
    /\ proc[p].pc = "extracted"
    /\ db' = [db EXCEPT !.chunks = @ \o <<Row(proc[p].chunks[1])>>]
    /\ proc' = [proc EXCEPT ![p].pc = "failing", ![p].error = "insert"]
    /\ UNCHANGED <<pdf, inv2, embed>>
    /\ UNCHANGED chunker_vars

\* lines 68-72 raise: the insertion fails, nothing is committed
StoreFails(p) ==
    /\ proc[p].pc = "extracted"
    /\ proc' = [proc EXCEPT ![p].pc = "failing", ![p].error = "insert"]
    /\ UNCHANGED <<pdf, db, inv2, embed>>
    /\ UNCHANGED chunker_vars

\* MarkFailed without the status update
MarkFailedRollbackOnly(p) ==
    /\ proc[p].pc = "failing"
    /\ proc' = [proc EXCEPT ![p].pc = "returned", ![p].result = "False"]
    /\ UNCHANGED <<pdf, db, inv2, embed>>
    /\ UNCHANGED chunker_vars

\* lines 77-84: rollback, status "failed", commit, return False
MarkFailed(p) ==
    /\ proc[p].pc = "failing"
    /\ db' = [db EXCEPT !.status = "failed"]
    /\ proc' = [proc EXCEPT
            ![p].pc = "returned",
            ![p].writes = Append(@, "failed"),
            ![p].result = "False"]
    /\ UNCHANGED <<pdf, inv2, embed>>
    /\ UNCHANGED chunker_vars

\* no other invocation is between its call and its return
Serial(p) ==
    \A q \in Procs \ {p} : proc[q].pc \in {"call", "returned"}

NextDoc ==
    \/ \E p \in Procs : Serial(p) /\ Query(p)
    \/ \E p \in Procs : Serial(p) /\ MarkProcessing(p)
    \/ \E p \in Procs : Serial(p) /\ ProcessFile(p)
    \/ \E p \in Procs : Serial(p) /\ StoreChunks(p)
    \/ \E p \in Procs : Serial(p) /\ StoreFails(p)
    \/ \E p \in Procs : Serial(p) /\ MarkFailed(p)

SpecDoc == InitDoc /\ [][NextDoc]_vars

\* the statuses process_uploaded_document can find: "uploaded" after the
\* upload, "completed" with the rows of the file, "failed" without rows,
\* and "processing" without rows (the column default of model.py, and what
\* an invocation that stopped between its commits leaves behind)
Statuses == {"uploaded", "processing", "completed", "failed"}

InitStored ==
    /\ pdf \in DocFiles
    /\ \E st \in Statuses :
        /\ st = "completed" => ProcessingError(pdf) = "none"
        /\ db = [status |-> st,
                 chunks |-> IF st = "completed"
                            THEN Rows(ProcessPdfFile(pdf).chunks)
                            ELSE <<>>]
    /\ proc = [p \in Procs |-> NewCall]
    /\ inv2 = NoSecond
    /\ embed = NoEmbedding
    /\ chunk_size = DefaultChunkSize
    /\ chunk_overlap = DefaultChunkOverlap
    /\ pages_text = <<>>
    /\ pc = "idle"
    /\ page_idx = 1
    /\ chunks = <<>>
    /\ chunk_index = 0
    /\ start = 0
    /\ page_chunks = <<>>
    /\ windows = <<>>

\* calls one after the other on a document in any status
SpecCalls == InitStored /\ [][NextDoc]_vars

(* Invocations in several server processes                                 *)
(*                                                                         *)
(* Each request has its own session (get_db) and nothing locks the         *)
(* document row: the status read at line 24 is not read again, and the     *)
(* commits write whatever the invocation decided.  With more than one      *)
(* server process the steps of two invocations for the same document       *)
(* interleave at their commits.                                            *)

RaceFiles == SpecialPdfs \cup {PdfFile(<<>>), PdfFile(<< <<"a">> >>)}

InitRace == InitDoc /\ pdf \in RaceFiles

NextRace ==
    \/ \E p \in Procs : Query(p)
    \/ \E p \in Procs : MarkProcessing(p)
    \/ \E p \in Procs : ProcessFile(p)
    \/ \E p \in Procs : StoreChunks(p)
    \/ \E p \in Procs : StoreFails(p)
    \/ \E p \in Procs : MarkFailed(p)

SpecRace == InitRace /\ [][NextRace]_vars

----------------------------------------------------------------------------
(* Two invocations of chunk_text for two documents                         *)
(*                                                                         *)
(* process_pdf_file builds a PDFProcessor of its own per call, and         *)
(* chunk_text and _split_text_with_overlap keep chunks, chunk_index, start *)
(* and the list of the split in local variables.  The first invocation     *)
(* runs on the variables of chunk_text above, the second on the locals     *)
(* held in inv2; their steps interleave freely.                            *)

MaxPairLen == 2     \* longest page text of a one-page document of a pair

PairConfigs == {<<1, 0>>, <<2, 1>>}

PairDocs ==
    {Paged(<<t>>, <<1>>) : t \in TextsUpTo(MaxPairLen)}
    \cup {Paged(<< <<"a", " ", ".">>, <<"a">> >>, <<1, 2>>),
          Paged(<< <<".">>, <<".", "a", "a">> >>, <<1, 2>>)}

InitPair ==
    \E in1 \in PairConfigs \X PairDocs, in2 \in PairConfigs \X PairDocs :
        /\ InitWith(in1)
        /\ inv2 = ChunkerEntered(in2[2], in2[1][1], in2[1][2])
        /\ pdf = NoFile
        /\ db = NoRows
        /\ proc = NoCalls
        /\ embed = NoEmbedding

\* SecondCounter reading the counter of the first invocation
SecondCounterShared == chunk_index

\* the counter the second invocation numbers its chunks with
SecondCounter == inv2.chunk_index

\* one step of the second invocation
SecondStep ==
    /\ inv2.pc \in {"page_loop", "split_loop"}
    /\ inv2' = ChunkerStep([inv2 EXCEPT !.chunk_index = SecondCounter])
    /\ UNCHANGED <<pdf, db, proc, embed>>
    /\ UNCHANGED chunker_vars

NextPair ==
    \/ PageWhole
    \/ SplitBegin
    \/ SplitStep
    \/ SplitReturn
    \/ Return
    \/ SecondStep

SpecPair == InitPair /\ [][NextPair]_vars

----------------------------------------------------------------------------
(* EmbeddingService.embed_document_chunks                                  *)
(*                                                                         *)
(* The rows of the document are db.chunks; a row's embedding is "None" or  *)
(* "vector".  The invocation reads the rows without an embedding once,     *)
(* walks them in batches of batch_size, asks the embedding service for the *)
(* vectors of a batch, assigns them pairwise (zip) and commits the batch.  *)
(* The service answers a batch with some number of vectors or raises.      *)

MaxRows == 3        \* most rows of an enumerated document
MaxBatch == 2       \* largest enumerated batch_size

DefaultBatchSize == 100     \* batch_size default, used by embedding_service

StoredRow(k, e) ==
    [chunk_text |-> <<"a">>, chunk_index |-> k - 1, page_number |-> 1,
     embedding |-> e]

\* the documents: none, and every document of up to MaxRows rows with any
\* of them embedded already
EmbedStores ==
    {NoRows}
    \cup UNION {{[status |-> "completed",
                  chunks |-> [k \in 1..n |-> StoredRow(k, e[k])]] :
                    e \in [1..n -> {"None", "vector"}]} : n \in 0..MaxRows}

\* a document with more rows than the default batch
LargeStore ==
    [status |-> "completed",
     chunks |-> [k \in 1..(DefaultBatchSize + 2) |-> StoredRow(k, "None")]]

\* a document and the batch_size of the service called on it
EmbedConfigs ==
    (EmbedStores \X ((1..MaxBatch) \cup {DefaultBatchSize}))
    \cup {<<LargeStore, DefaultBatchSize>>}

\* the elements of a set of numbers in ascending order
Ascending(S) ==
    [k \in 1..Cardinality(S) |->
        CHOOSE x \in S : Cardinality({y \in S : y < x}) = k - 1]

\* lines 76-79: the positions of the rows without an embedding
NullRows(rows) ==
    Ascending({k \in 1..Len(rows) : rows[k].embedding = "None"})

\* the numbers of vectors the service may answer a batch of len texts with
ReturnCounts(len) ==
    {n \in 0..(len + 1) : n <= MaxBatch + 1 \/ n >= len - 1}

InitEmbed ==
    /\ \E c \in EmbedConfigs :
        /\ db = c[1]
        /\ embed = [pc |-> "call", batch_size |-> c[2], todo |-> <<>>,
                    i |-> 0, answered |-> <<>>, failed_at |-> -1,
                    result |-> "none"]
    /\ pdf = NoFile
    /\ proc = NoCalls
    /\ inv2 = NoSecond
    /\ chunk_size = DefaultChunkSize
    /\ chunk_overlap = DefaultChunkOverlap
    /\ pages_text = <<>>
    /\ pc = "idle"
    /\ page_idx = 1
    /\ chunks = <<>>
    /\ chunk_index = 0
    /\ start = 0
    /\ page_chunks = <<>>
    /\ windows = <<>>

\* lines 70-85: the document, and its rows without an embedding
EmbedQuery ==
    /\ embed.pc = "call"
    /\ embed' =
        IF db.status = "none"
        THEN [embed EXCEPT !.pc = "returned", !.result = "False"]
        ELSE IF NullRows(db.chunks) = <<>>
        THEN [embed EXCEPT !.pc = "returned", !.result = "True"]
        ELSE [embed EXCEPT !.pc = "batch", !.todo = NullRows(db.chunks)]
    /\ UNCHANGED <<pdf, db, proc, inv2>>
    /\ UNCHANGED chunker_vars

\* chunks[i:i + self.batch_size]
Batch(todo, i, bs) == SubSeq(todo, i + 1, Min(i + bs, Len(todo)))

\* lines 96-97: the rows zip pairs with one of n vectors
Assigned(batch, n) == {batch[k] : k \in 1..Min(n, Len(batch))}

\* lines 88-106: one batch is answered with n vectors and committed
EmbedBatch ==
    /\ embed.pc = "batch"
    /\ embed.i < Len(embed.todo)
    /\ LET batch == Batch(embed.todo, embed.i, embed.batch_size) IN
        \E n \in ReturnCounts(Len(batch)) :
            /\ db' = [db EXCEPT !.chunks =
                    [k \in 1..Len(db.chunks) |->
                        IF k \in Assigned(batch, n)
                        THEN [db.chunks[k] EXCEPT !.embedding = "vector"]
                        ELSE db.chunks[k]]]
            /\ embed' = [embed EXCEPT
                    !.i = @ + embed.batch_size,
                    !.answered = Append(@, n)]
    /\ UNCHANGED <<pdf, proc, inv2>>
    /\ UNCHANGED chunker_vars

\* lines 93-100 raise (the service or the commit fails), lines 111-114:
\* rollback, return False
EmbedBatchFails ==
    /\ embed.pc = "batch"
    /\ embed.i < Len(embed.todo)
    /\ embed' = [embed EXCEPT
            !.pc = "returned",
            !.failed_at = embed.i,
            !.result = "False"]
    /\ UNCHANGED <<pdf, db, proc, inv2>>
    /\ UNCHANGED chunker_vars

\* lines 108-109: the loop is over
EmbedReturn ==
    /\ embed.pc = "batch"
    /\ embed.i >= Len(embed.todo)
    /\ embed' = [embed EXCEPT !.pc = "returned", !.result = "True"]
    /\ UNCHANGED <<pdf, db, proc, inv2>>
    /\ UNCHANGED chunker_vars

NextEmbed ==
    \/ EmbedQuery
    \/ EmbedBatch
    \/ EmbedBatchFails
    \/ EmbedReturn

SpecEmbed == InitEmbed /\ [][NextEmbed]_vars

----------------------------------------------------------------------------
(* Vocabulary of the properties                                            *)

InLoop == pc = "split_loop"
LoopExited == pc = "split_loop" /\ start >= Len(page_text)

PeriodFree(t) == \A i \in 1..Len(t) : t[i] # "."

CeilDiv(a, b) == (a + b - 1) \div b

\* the cursor the loop continued with after its i-th iteration
CursorAfter(i) == IF i < Len(windows) THEN windows[i + 1].start ELSE start

\* the i-th window stopped short of the end of the text
NotTail(i) == windows[i].start + chunk_size < Len(page_text)

\* the number of whitespace characters at the left and right end of s
LeadingSpaces(s) ==
    CHOOSE n \in 0..Len(s) :
        /\ \A i \in 1..n : IsSpace(s[i])
        /\ n = Len(s) \/ ~IsSpace(s[n + 1])

TrailingSpaces(s) ==
    CHOOSE n \in 0..Len(s) :
        /\ \A i \in 1..n : IsSpace(s[Len(s) + 1 - i])
        /\ n = Len(s) \/ ~IsSpace(s[Len(s) - n])

\* the part of the page text the i-th window reads
WindowSlice(i) == Slice(page_text, windows[i].start, windows[i].end)

\* s[n:]
Drop(s, n) == SubSeq(s, n + 1, Len(s))

----------------------------------------------------------------------------
(* C1: the split loop terminates.  The body of the loop is a function of   *)
(* the cursor alone (text and configuration are fixed), so the loop        *)
(* reaches start >= len(text) exactly when it never comes back to a        *)
(* cursor value it already used: the cursor of the next iteration is       *)
(* different from the cursors of all earlier iterations.                   *)
C1_LoopTerminates ==
    InLoop => \A i \in 1..Len(windows) : windows[i].start # start

(* C2: every iteration of the split loop leaves the cursor strictly        *)
(* greater than it found it: the cursor becomes end when end -             *)
(* chunk_overlap is <= 0 or not past the previous start, and end -         *)
(* chunk_overlap otherwise.                                                *)
C2_CursorAdvances ==
    [][(InLoop /\ pc' = "split_loop") =>
        LET e == windows'[Len(windows')].end IN
        /\ start' > start
        /\ start' = IF e - chunk_overlap <= 0 \/ e - chunk_overlap <= start
                    THEN e ELSE e - chunk_overlap]_vars

(* C3 as stated: the loop runs at most                                     *)
(* ceil(len(text) / (chunk_size - chunk_overlap)) + 1 iterations, snapped  *)
(* windows included.                                                       *)
C3_IterationBound ==
    InLoop =>
        Len(windows) <= CeilDiv(Len(page_text), chunk_size - chunk_overlap) + 1

(* C3 amended: the bound holds for the runs of the loop in which no        *)
(* window was snapped back to a period.                                    *)
C3_IterationBoundUnsnapped ==
    (InLoop /\ \A i \in 1..Len(windows) : ~windows[i].snapped) =>
        Len(windows) <= CeilDiv(Len(page_text), chunk_size - chunk_overlap) + 1

C3_Witness ==
    /\ LoopExited
    /\ Len(page_text) = 2500
    /\ Len(windows) >= 3
    /\ \A i \in 1..Len(windows) : ~windows[i].snapped

(* C4: the chunk_index values of the chunks, in output order, are          *)
(* 0, 1, ..., N-1, across page boundaries, and the running counter is N.   *)
C4_IndexContiguous ==
    /\ \A i \in 1..Len(chunks) : chunks[i].chunk_index = i - 1
    /\ chunk_index = Len(chunks)

C4_Witness ==
    /\ pc = "done"
    /\ Len(pages_text) = 2
    /\ Len(chunks) >= 4
    /\ chunks[2].page_number # chunks[Len(chunks) - 1].page_number

(* C5: every chunk has char_count <= chunk_size.                           *)
C5_BoundedLength ==
    /\ \A i \in 1..Len(chunks) : chunks[i].char_count <= chunk_size
    /\ \A i \in 1..Len(page_chunks) : Len(page_chunks[i]) <= chunk_size

C5_Witness ==
    /\ pc = "done"
    /\ Len(pages_text) = 1
    /\ \E i \in 1..Len(windows) : windows[i].snapped
    /\ \E i \in 1..Len(windows) :
            ~windows[i].snapped /\ windows[i].end < Len(pages_text[1][1])
    /\ \E i \in 1..Len(chunks) : chunks[i].char_count = chunk_size
    /\ \E i \in 1..Len(chunks) : chunks[i].char_count < chunk_size

\* the chunks the windows emitted, in order (empty chunks are not emitted)
RECURSIVE EmittedFrom(_)
EmittedFrom(i) ==
    IF i > Len(windows) THEN <<>>
    ELSE IF windows[i].chunk = <<>> THEN EmittedFrom(i + 1)
    ELSE <<windows[i].chunk>> \o EmittedFrom(i + 1)

\* the i-th window's slice without the whitespace at its two ends
StrippedSlice(i) ==
    LET sl == WindowSlice(i) IN
    SubSeq(sl, LeadingSpaces(sl) + 1, Len(sl) - TrailingSpaces(sl))

\* the first chunk, then every later chunk without its first ov characters
RECURSIVE JoinFrom(_, _, _)
JoinFrom(cs, k, ov) ==
    IF k > Len(cs) THEN <<>>
    ELSE (IF k = 1 THEN cs[1] ELSE Drop(cs[k], ov)) \o JoinFrom(cs, k + 1, ov)

C7_TailWindowIsLast ==
    /\ InLoop =>
        \A i \in 1..Len(windows) :
            ~NotTail(i) =>
                /\ i = Len(windows)
                /\ start >= Len(page_text)
                /\ windows[i].chunk =
                    Strip(Slice(page_text, windows[i].start, Len(page_text)))
    /\ (/\ LoopExited
        /\ chunk_size = 1000 /\ chunk_overlap = 200
        /\ Len(page_text) = 2500 /\ PeriodFree(page_text)) =>
            /\ Len(page_chunks) = 3
            /\ [i \in 1..Len(windows) |-> windows[i].start] = <<0, 800, 1600>>

(* C8 as stated: the first chunk followed by every later chunk without its *)
(* first chunk_overlap characters is the page text.                        *)
C8_Reconstruct ==
    LoopExited => JoinFrom(page_chunks, 1, chunk_overlap) = page_text

(* C8 amended: the windows cover the page text without a gap (the first    *)
(* starts at 0, each later one starts at or before the end of the one      *)
(* before it, and on exit the last reaches len(text)); every emitted chunk *)
(* is its window without the whitespace at the window's two ends, an       *)
(* all-whitespace window emitting none; so on exit every non-whitespace    *)
(* character of the page text lies in some emitted chunk.                  *)
C8_WindowsCover ==
    InLoop =>
        /\ windows # <<>> =>
            /\ windows[1].start = 0
            /\ start <= windows[Len(windows)].end
        /\ \A i \in 2..Len(windows) : windows[i].start <= windows[i - 1].end
        /\ \A i \in 1..Len(windows) : windows[i].chunk = StrippedSlice(i)
        /\ page_chunks = EmittedFrom(1)
        /\ LoopExited =>
            LET covered ==
                    UNION {LET sl == WindowSlice(i) IN
                           (windows[i].start + LeadingSpaces(sl) + 1) ..
                           (windows[i].start + Len(sl) - TrailingSpaces(sl)) :
                           i \in 1..Len(windows)}
            IN  /\ windows[Len(windows)].end >= Len(page_text)
                /\ \A q \in 1..Len(page_text) :
                        ~IsSpace(page_text[q]) => q \in covered

C8_Witness ==
    /\ LoopExited
    /\ Len(windows) >= 3
    /\ chunk_overlap > 0
    /\ JoinFrom(page_chunks, 1, chunk_overlap) # page_text
    /\ \E i \in 1..Len(windows) : Len(windows[i].chunk) < Len(WindowSlice(i))

\* C9, the end of the i-th window: p + 1 for the last period p of
\* text[max(start + chunk_size - 200, start) : start + chunk_size) when
\* that p is past start, and start + chunk_size when there is none
SnapRuleEnd(i, next(_)) ==
    LET s == windows[i].start
        e == s + chunk_size
        lo == IF e - 200 > s THEN e - 200 ELSE s
        last == {p \in lo..(e - 1) :
                    /\ page_text[p + 1] = "."
                    /\ \A r \in (p + 1)..(e - 1) : page_text[r + 1] # "."}
    IN  IF \E p \in last : p > s
        THEN \A p \in last :
                /\ windows[i].end = p + 1
                /\ CursorAfter(i) = next(p + 1)
        ELSE windows[i].end = e

(* C9 as stated: a window short of the end of the text ends at p + 1 for   *)
(* the last period p of the 200-character lookback, when p > start, and    *)
(* the next cursor is then p + 1 - chunk_overlap; otherwise it ends at     *)
(* start + chunk_size.                                                     *)
C9_SnapRule ==
    InLoop =>
        \A i \in 1..Len(windows) :
            NotTail(i) => SnapRuleEnd(i, LAMBDA e : e - chunk_overlap)

(* C9 amended: the same, with the next cursor p + 1 - chunk_overlap when   *)
(* that is positive and p + 1 when it is not.                              *)
C9_SnapRuleOrEnd ==
    InLoop =>
        \A i \in 1..Len(windows) :
            NotTail(i) =>
                SnapRuleEnd(i, LAMBDA e : IF e - chunk_overlap > 0
                                          THEN e - chunk_overlap ELSE e)

C9_Witness ==
    /\ InLoop
    /\ Len(page_text) = 1200
    /\ page_text[799 + 1] = "." /\ page_text[850 + 1] = "."
    /\ Len(windows) >= 2
    /\ windows[1].end = 851
    /\ windows[2].start = 851 - chunk_overlap

(* C10: on a page text without a period the k-th window (k = 0, 1, ...)    *)
(* starts at k * (chunk_size - chunk_overlap).                             *)
C10_PeriodFreeStride ==
    (InLoop /\ PeriodFree(page_text)) =>
        /\ \A k \in 1..Len(windows) :
            windows[k].start = (k - 1) * (chunk_size - chunk_overlap)
        /\ start = Len(windows) * (chunk_size - chunk_overlap)

C10_Witness ==
    /\ LoopExited
    /\ PeriodFree(page_text)
    /\ chunk_overlap > 0
    /\ Len(windows) >= 3

----------------------------------------------------------------------------
(* Vocabulary of the properties on whole chunk sequences                   *)

\* t is non-empty and has no whitespace at either end
IsTrimmed(t) == t # <<>> /\ ~IsSpace(t[1]) /\ ~IsSpace(t[Len(t)])

\* the i-th window reads at least one character that is not whitespace
WindowHasText(i) ==
    \E j \in windows[i].start..(Min(windows[i].end, Len(page_text)) - 1) :
        ~IsSpace(page_text[j + 1])

(* C13: the pages being non-empty and trimmed, every chunk text is         *)
(* non-empty and has no leading or trailing whitespace; a window that is   *)
(* empty after trimming emits no chunk (the loop has emitted as many       *)
(* chunks as it has read windows with some non-whitespace character) and   *)
(* consumes no chunk_index (the counter equals the number of chunks).      *)
C13_ChunksTrimmed ==
    /\ \A i \in 1..Len(chunks) : IsTrimmed(chunks[i].text)
    /\ chunk_index = Len(chunks)
    /\ InLoop =>
        /\ \A i \in 1..Len(page_chunks) : IsTrimmed(page_chunks[i])
        /\ \A i \in 1..Len(windows) :
                (windows[i].chunk = <<>>) <=> ~WindowHasText(i)
        /\ Len(page_chunks) =
                Cardinality({i \in 1..Len(windows) : WindowHasText(i)})

\* a loop that has ended after a window of whitespace only inside the text
C13_Witness ==
    /\ LoopExited
    /\ Len(page_chunks) >= 2
    /\ \E i \in 1..Len(windows) :
        /\ windows[i].end <= Len(page_text)
        /\ windows[i].chunk = <<>>

\* the pages the for loop of chunk_text has finished
PagesDone == 1..Min(page_idx - 1, Len(pages_text))

\* the positions in chunks of the chunks that carry the page number of page j
ChunksOfPage(j) ==
    {i \in 1..Len(chunks) : chunks[i].page_number = pages_text[j][2]}

(* C14: a page of at most chunk_size characters gives exactly one chunk:   *)
(* its text is the page text unchanged, its chunk_index is the next        *)
(* sequential index (the number of chunks before it), its char_count is    *)
(* the length of the page text.  A document of a single such page gives    *)
(* one chunk, with chunk_index 0.                                          *)
C14_WholePageOneChunk ==
    /\ \A j \in PagesDone :
            Len(pages_text[j][1]) <= chunk_size =>
                /\ Cardinality(ChunksOfPage(j)) = 1
                /\ \A i \in ChunksOfPage(j) :
                        chunks[i] = [text |-> pages_text[j][1],
                                     chunk_index |-> i - 1,
                                     page_number |-> pages_text[j][2],
                                     char_count |-> Len(pages_text[j][1])]
    /\ (pc = "done" /\ Len(pages_text) = 1
            /\ Len(pages_text[1][1]) <= chunk_size) =>
        /\ Len(chunks) = 1
        /\ chunks[1].chunk_index = 0
        /\ chunks[1].text = pages_text[1][1]

\* a page that fits follows a page that was split into several chunks
C14_Witness ==
    /\ pc = "done"
    /\ Len(pages_text) = 2
    /\ Len(pages_text[1][1]) > chunk_size
    /\ Len(pages_text[2][1]) <= chunk_size
    /\ Len(chunks) >= 3
    /\ chunks[Len(chunks)].text = pages_text[2][1]
    /\ chunks[Len(chunks)].chunk_index = Len(chunks) - 1

\* c occurs in t as a run of consecutive characters
IsSubstring(c, t) ==
    \E off \in 0..(Len(t) - Len(c)) : \A k \in 1..Len(c) : t[off + k] = c[k]

\* the pages of the input that carry the page number num
PagesNumbered(num) == {j \in 1..Len(pages_text) : pages_text[j][2] = num}

(* C15: every chunk comes from exactly one page of the input: exactly one  *)
(* page carries the chunk's page_number, and the chunk's text is a         *)
(* contiguous substring of the text of that page.                          *)
C15_ChunkWithinOnePage ==
    \A i \in 1..Len(chunks) :
        /\ Cardinality(PagesNumbered(chunks[i].page_number)) = 1
        /\ \A j \in PagesNumbered(chunks[i].page_number) :
                IsSubstring(chunks[i].text, pages_text[j][1])

\* two pages that are both split, the second with a chunk that does not
\* occur in the first
C15_Witness ==
    /\ pc = "done"
    /\ Len(pages_text) = 2
    /\ Len(pages_text[1][1]) > chunk_size
    /\ Len(pages_text[2][1]) > chunk_size
    /\ \E i \in 1..Len(chunks) :
        /\ chunks[i].page_number = pages_text[2][2]
        /\ ~IsSubstring(chunks[i].text, pages_text[1][1])

\* the page numbers of the input ascend
PagesAscending ==
    \A a \in 1..Len(pages_text), b \in 1..Len(pages_text) :
        a < b => pages_text[a][2] < pages_text[b][2]

(* C16: when the page numbers of the input ascend, the page_number of the  *)
(* chunks never decreases as chunk_index grows.                            *)
C16_PageNumberMonotone ==
    PagesAscending =>
        \A i \in 1..Len(chunks), j \in 1..Len(chunks) :
            chunks[i].chunk_index < chunks[j].chunk_index =>
                chunks[i].page_number <= chunks[j].page_number

\* chunks of two pages, several of them from the same page
C16_Witness ==
    /\ pc = "done"
    /\ PagesAscending
    /\ Len(chunks) >= 3
    /\ chunks[1].page_number < chunks[Len(chunks)].page_number
    /\ \E i \in 1..(Len(chunks) - 1) :
            chunks[i].page_number = chunks[i + 1].page_number

(* C19: chunk_text returns for every sequence of non-empty pages and every *)
(* configuration with 0 <= chunk_overlap < chunk_size, and returns no      *)
(* chunk for the empty sequence.  Nothing in chunk_text raises, so it      *)
(* returns exactly when every split loop ends.  A loop that ends reads     *)
(* each cursor 0 .. len(text) - 1 at most once (its body is a function of  *)
(* the cursor), so it never runs more iterations than the page has         *)
(* characters; a loop that runs more never ends, and its list grows until  *)
(* memory is exhausted.                                                    *)
C19_ChunkTextReturns ==
    /\ InLoop => Len(windows) <= Len(page_text)
    /\ (pc = "done" /\ pages_text = <<>>) => chunks = <<>>

----------------------------------------------------------------------------
(* Vocabulary of the properties of process_pdf                             *)

\* extract_text_from_pdf has returned
Extracted == pc \notin {"extract", "raise_reading"}

\* the 1-based positions of the pages of the file whose cleaned text is
\* not empty
TextPages == {n \in 1..Len(pdf.pages) : CleanText(pdf.pages[n]) # <<>>}

(* C17: extract_text_from_pdf returns one (text, page_number) pair for     *)
(* exactly the pages of the file whose cleaned text is non-empty, in       *)
(* ascending page order, each with the cleaned text of the page and the    *)
(* page's 1-based position in the file (pages are not renumbered after an  *)
(* empty one is dropped); the chunks carry those positions as page_number. *)
C17_ExtractKeepsPositions ==
    Extracted =>
        /\ {pages_text[k][2] : k \in 1..Len(pages_text)} = TextPages
        /\ \A a \in 1..Len(pages_text), b \in 1..Len(pages_text) :
                a < b => pages_text[a][2] < pages_text[b][2]
        /\ \A k \in 1..Len(pages_text) :
                pages_text[k][1] = CleanText(pdf.pages[pages_text[k][2]])
        /\ \A i \in 1..Len(chunks) :
                /\ chunks[i].page_number \in TextPages
                /\ IsSubstring(chunks[i].text,
                               CleanText(pdf.pages[chunks[i].page_number]))

\* a file with an empty page before a page with text, chunked to the end
C17_Witness ==
    /\ pc = "done"
    /\ Len(pages_text) < Len(pdf.pages)
    /\ \E k \in 1..Len(pages_text) : pages_text[k][2] > k
    /\ chunks # <<>>
    /\ chunks[Len(chunks)].page_number > Len(pages_text)

----------------------------------------------------------------------------
(* Vocabulary of the properties of process_uploaded_document               *)

\* the invocations that found the document "uploaded"
Processing == {p \in Procs : proc[p].seen = "uploaded"}

Returned(p) == proc[p].pc = "returned"

\* s is an initial part of t
IsPrefix(s, t) == Len(s) <= Len(t) /\ SubSeq(t, 1, Len(s)) = s

\* the file can be opened and read and has a page with text
FileHasText == pdf.exists /\ pdf.readable /\ TextPages # {}

\* the changes of the status the lifecycle allows
Lifecycle ==
    {<<"uploaded", "processing">>, <<"processing", "completed">>,
     <<"processing", "failed">>}

(* C11: an invocation that finds the document "uploaded" moves the status  *)
(* only along uploaded -> processing -> completed or uploaded ->           *)
(* processing -> failed.  Every change of the committed status is a step   *)
(* of the lifecycle; the invocation commits "processing" and then exactly  *)
(* one of "completed" and "failed": "completed", returning True, when      *)
(* extraction, chunking and insertion succeeded, "failed", returning       *)
(* False, when one of them raised; when it has returned the status is not  *)
(* "processing".                                                           *)
C11_StatusLifecycle ==
    /\ [](\A p \in Processing :
            /\ \/ IsPrefix(proc[p].writes, <<"processing", "completed">>)
               \/ IsPrefix(proc[p].writes, <<"processing", "failed">>)
            /\ Returned(p) =>
                /\ db.status # "processing"
                /\ \/ /\ proc[p].writes = <<"processing", "completed">>
                      /\ proc[p].error = "none"
                      /\ proc[p].result = "True"
                      /\ FileHasText
                   \/ /\ proc[p].writes = <<"processing", "failed">>
                      /\ proc[p].error # "none"
                      /\ proc[p].result = "False"
                /\ ~FileHasText => proc[p].result = "False")
    /\ [][db.status' # db.status => <<db.status, db.status'>> \in Lifecycle]_vars

\* an invocation whose insertion failed has marked the document failed
C11_Witness ==
    \E p \in Processing :
        /\ Returned(p)
        /\ proc[p].writes = <<"processing", "failed">>
        /\ proc[p].error = "insert"
        /\ db.status = "failed"

(* C12: the rows committed for the document are either none or the rows of *)
(* the complete chunk sequence process_pdf_file returns for its file; an   *)
(* invocation in which extraction, chunking or insertion raised leaves no  *)
(* row; rows are committed only by the commit that sets the status to      *)
(* "completed".                                                            *)
C12_ChunksAllOrNothing ==
    /\ [](/\ \/ db.chunks = <<>>
              \/ db.chunks = Rows(ProcessPdfFile(pdf).chunks)
          /\ db.chunks # <<>> => db.status = "completed"
          /\ \A p \in Processing :
                (proc[p].error # "none") => db.chunks = <<>>)
    /\ [][db.chunks' # db.chunks =>
            db.status # "completed" /\ db.status' = "completed"]_vars

\* the insertion of several chunks has failed and the invocation has
\* returned
C12_Witness ==
    \E p \in Processing :
        /\ Returned(p)
        /\ proc[p].error = "insert"
        /\ Len(proc[p].chunks) >= 2
        /\ db.chunks = <<>>

\* the file can be read and none of its pages has text
FileWithoutText == pdf.exists /\ pdf.readable /\ TextPages = {}

(* C18: for a file that can be read and has no page with text (no page at  *)
(* all, or only pages that are empty after cleaning), process_pdf raises   *)
(* its "no text" error instead of returning chunks, and an invocation of   *)
(* process_uploaded_document that processes the document returns False     *)
(* with the status "failed" and no row committed.                          *)
C18_NoTextFails ==
    FileWithoutText =>
        /\ ProcessPdfFile(pdf).error = "no_text"
        /\ db.chunks = <<>>
        /\ \A p \in Processing :
            /\ proc[p].pc \notin {"extracted"}
            /\ proc[p].pc \in {"failing", "returned"} =>
                    proc[p].error = "no_text"
            /\ Returned(p) =>
                /\ proc[p].result = "False"
                /\ db.status = "failed"

\* a file of blank pages has been processed
C18_Witness ==
    /\ FileWithoutText
    /\ Len(pdf.pages) >= 2
    /\ \E p \in Processing :
        /\ Returned(p)
        /\ proc[p].result = "False"
        /\ db.status = "failed"

----------------------------------------------------------------------------
(* Vocabulary of the properties of two invocations                         *)

\* what each invocation returns when it runs alone
AloneFirst == ChunkText(pages_text, chunk_size, chunk_overlap)
AloneSecond ==
    ChunkText(inv2.pages_text, inv2.chunk_size, inv2.chunk_overlap)

\* cs is numbered 0, 1, 2, ...
NumberedFromZero(cs) == \A i \in 1..Len(cs) : cs[i].chunk_index = i - 1

(* C20: two invocations of chunk_text for two documents, their steps       *)
(* interleaved in any order, each build and return the chunk sequence      *)
(* (texts, page numbers, chunk_index from 0) they return when run alone:   *)
(* at every point the chunks of an invocation are an initial part of its   *)
(* result alone, and the whole of it once it has returned.                 *)
C20_InvocationsIndependent ==
    /\ IsPrefix(chunks, AloneFirst)
    /\ pc = "done" => chunks = AloneFirst
    /\ NumberedFromZero(chunks)
    /\ IsPrefix(inv2.chunks, AloneSecond)
    /\ inv2.pc = "done" => inv2.chunks = AloneSecond
    /\ NumberedFromZero(inv2.chunks)

\* both invocations have emitted the chunks of their first page and
\* neither has returned, with different counters
C20_Witness ==
    /\ pc = "page_loop"
    /\ page_idx = 2
    /\ Len(pages_text) = 2
    /\ inv2.pc = "split_loop"
    /\ inv2.page_idx = 2
    /\ inv2.page_chunks # <<>>
    /\ chunk_index > inv2.chunk_index
    /\ inv2.chunks # <<>>

\* the two invocations were given the same pages and the same configuration
SameInput ==
    /\ inv2.pages_text = pages_text
    /\ inv2.chunk_size = chunk_size
    /\ inv2.chunk_overlap = chunk_overlap

(* C21: two runs of chunk_text on identical pages with identical           *)
(* chunk_size and chunk_overlap return identical chunk sequences: the same *)
(* number of chunks and, position by position, the same text, chunk_index, *)
(* page_number and char_count.                                             *)
C21_Deterministic ==
    (SameInput /\ pc = "done" /\ inv2.pc = "done") =>
        /\ Len(chunks) = Len(inv2.chunks)
        /\ \A i \in 1..Len(chunks) :
            /\ chunks[i].text = inv2.chunks[i].text
            /\ chunks[i].chunk_index = inv2.chunks[i].chunk_index
            /\ chunks[i].page_number = inv2.chunks[i].page_number
            /\ chunks[i].char_count = inv2.chunks[i].char_count

\* both runs on the same two-page document have returned several chunks
C21_Witness ==
    /\ SameInput
    /\ pc = "done"
    /\ inv2.pc = "done"
    /\ Len(pages_text) = 2
    /\ Len(chunks) >= 3
    /\ Len(inv2.chunks) >= 3

(* C23: every chunk of chunk_text has char_count equal to the length of    *)
(* its own text, for a whole-page chunk and for a chunk of the splitting   *)
(* loop, whose text is the trimmed window.                                 *)
C23_CharCountIsLength ==
    \A i \in 1..Len(chunks) : chunks[i].char_count = Len(chunks[i].text)

\* a one-page document with a chunk that lost whitespace to the trim: its
\* char_count is the trimmed length, less than the characters the window
\* read
C23_Witness ==
    /\ pc = "done"
    /\ Len(pages_text) = 1
    /\ \E k \in 1..Len(windows), i \in 1..Len(chunks) :
        /\ windows[k].chunk # <<>>
        /\ windows[k].end <= Len(pages_text[1][1])
        /\ Len(windows[k].chunk) < windows[k].end - windows[k].start
        /\ chunks[i].text = windows[k].chunk
        /\ chunks[i].char_count = Len(windows[k].chunk)

\* t has two whitespace characters next to each other
HasWhitespaceRun(t) ==
    \E i \in 1..(Len(t) - 1) : t[i] \in Whitespace /\ t[i + 1] \in Whitespace

(* C22: the text of every page extract_text_from_pdf emits (the result of  *)
(* _clean_text) has no leading or trailing whitespace, consists of word    *)
(* characters, spaces and the kept punctuation only, and has no run of two *)
(* or more consecutive whitespace characters.                              *)
C22_CleanTextNormalized ==
    Extracted =>
        \A k \in 1..Len(pages_text) :
            LET t == pages_text[k][1] IN
            /\ t # <<>>
            /\ t[1] \notin Whitespace
            /\ t[Len(t)] \notin Whitespace
            /\ \A i \in 1..Len(t) : t[i] \in {"a", ".", " "}
            /\ ~HasWhitespaceRun(t)

\* the invocations that found the document in another status than
\* "uploaded"
Refused == {p \in Procs : proc[p].seen \in Statuses \ {"uploaded"}}

(* C24: an invocation that finds the document in a status other than       *)
(* "uploaded" changes neither the status nor the stored rows, and returns  *)
(* True for "completed" and False for "processing" and "failed".  Hence,   *)
(* in any sequence of calls, the status and the rows of a completed or a   *)
(* failed document never change again.                                     *)
C24_OtherStatusNoEffect ==
    /\ [](\A p \in Refused :
            /\ Returned(p)
            /\ proc[p].writes = <<>>
            /\ proc[p].chunks = <<>>
            /\ proc[p].result =
                    IF proc[p].seen = "completed" THEN "True" ELSE "False")
    /\ [][\A p \in Procs :
            (proc[p].pc = "call" /\ proc'[p].pc # "call"
                /\ db.status # "uploaded") =>
                    /\ db' = db
                    /\ proc'[p].pc = "returned"]_vars
    /\ [][db.status \in {"completed", "failed"} => db' = db]_vars

\* one call has completed the document and the next call has returned True
\* without touching the rows
C24_Witness ==
    \E p \in Refused, q \in Processing :
        /\ proc[q].writes = <<"processing", "completed">>
        /\ proc[p].seen = "completed"
        /\ proc[p].result = "True"
        /\ Len(db.chunks) >= 2
        /\ db.chunks = Rows(proc[q].chunks)

\* the invocations that have committed rows
Persisted == {p \in Procs : \E k \in 1..Len(proc[p].writes) :
                                proc[p].writes[k] = "completed"}

(* C25: when invocations for the same uploaded document interleave, each   *)
(* with its own session, at most one of them persists chunks, and the rows *)
(* stored for the document never hold two rows with the same chunk_index.  *)
C25_NoDuplicateRows ==
    /\ Cardinality(Persisted) <= 1
    /\ \A i \in 1..Len(db.chunks), j \in 1..Len(db.chunks) :
            i # j => db.chunks[i].chunk_index # db.chunks[j].chunk_index

----------------------------------------------------------------------------
(* Vocabulary of the properties of embed_document_chunks                   *)

\* the 0-based offsets of the batches before the offset i
BatchOffsets(i) == {o \in 0..(i - 1) : o % embed.batch_size = 0}

(* C26: when embed_document_chunks returns True for an existing document,  *)
(* every row of the document has an embedding, whatever number of vectors  *)
(* the service answered each batch with; when it returns False because a   *)
(* batch failed, the embeddings committed for the earlier batches are kept *)
(* and the rows of the failed batch have no embedding.                     *)
C26_EmbeddedOrReported ==
    /\ (embed.pc = "returned" /\ embed.result = "True"
            /\ db.status # "none") =>
        \A k \in 1..Len(db.chunks) : db.chunks[k].embedding # "None"
    /\ (embed.pc = "returned" /\ embed.failed_at >= 0) =>
        /\ embed.result = "False"
        /\ \A o \in BatchOffsets(embed.failed_at) :
            \A k \in Assigned(Batch(embed.todo, o, embed.batch_size),
                              embed.answered[(o \div embed.batch_size) + 1]) :
                db.chunks[k].embedding = "vector"
        /\ LET failed == Batch(embed.todo, embed.failed_at, embed.batch_size)
           IN  \A k \in 1..Len(failed) :
                    db.chunks[failed[k]].embedding = "None"

====
